---- MODULE Spec2Model ----
(***************************************************************************)
(* State-machine model of the PdfHighlighter component                     *)
(* (src/src/components/PdfHighlighter.tsx).                                *)
(*                                                                         *)
(* The component is single threaded: every handler, effect and timer       *)
(* callback runs to completion, so each one is one atomic action.  Time is *)
(* kept as the remaining delay of every pending timer and advances by      *)
(* Quantum (half a debounce window) in the Tick action; a timer whose      *)
(* remaining delay is 0 fires before time advances again.                  *)
(*                                                                         *)
(* The listeners registered by the mount effect are the closures of the    *)
(* first render, so onSelectionChange, the ResizeObserver and              *)
(* onDocumentReady always use the first render's debounced functions,      *)
(* while the [pdfScaleValue] effect of a later render uses the debounced   *)
(* function created by that render.                                        *)
(***************************************************************************)
EXTENDS Integers, Sequences, FiniteSets, TLC

\* ---------------------------------------------------------------- bounds
NumPages == 1        \* pdfDocument.numPages
NumRanges == 2       \* distinct DOM ranges the user can select
NumHighlights == 1
MaxCoord == 2         \* coordinates and sizes of the rectangles converted
MaxScale == 2         \* viewport scales of the rectangles converted
MaxScaleRuns == 2     \* handleScaleValueRuns saturates here   \* highlights the caller may supply

\* ------------------------------------------------------ program constants
DebounceWait == 100  \* debounce(afterSelection, 100), debounce(handleScaleValue, 100)
ScrollWait == 100    \* setTimeout(..., 100) in scrollTo
Quantum == DebounceWait \div 2

Pages == 1..NumPages
Ranges == 1..NumRanges
HighlightIds == 1..NumHighlights
ScaleValues == {"auto", "page-width"}

NULL == [null |-> TRUE]
NoTimer == {}

Min(a, b) == IF a < b THEN a ELSE b
Max(a, b) == IF a > b THEN a ELSE b

\* ------------------------------------------------------------- geometry
RECURSIVE GCD(_, _)
GCD(a, b) == IF b = 0 THEN a ELSE GCD(b, a % b)

\* An exact quotient n / d in lowest terms.
Frac(n, d) == LET g == GCD(n, d) IN [num |-> n \div g, den |-> d \div g]

\* The i-th client rectangle of a selection on page p, in viewport pixels of
\* a page shown at scale s: one piece of text per line, each line starting
\* further left than the one above it.
ClientRect(p, i, s) ==
    [left |-> 2 * (NumRanges + 1 - i) * s, top |-> 3 * i * s,
     width |-> 2 * s, height |-> s, pageNumber |-> p]

PageOf(r) == ((r - 1) % NumPages) + 1

\* getPagesFromRange: the pages a range touches.
GetPagesFromRange(r, layout) ==
    IF layout = "noPages" THEN <<>> ELSE <<PageOf(r)>>

\* getClientRects: range r yields r rectangles on its page.
GetClientRects(r, pages, layout, s) ==
    IF layout = "noRects" \/ pages = <<>> THEN <<>>
    ELSE [i \in 1..r |-> ClientRect(pages[1], i, s)]

RECURSIVE MinOver(_, _), MaxOver(_, _)
MinOver(f, n) == IF n = 1 THEN f[1] ELSE Min(f[n], MinOver(f, n - 1))
MaxOver(f, n) == IF n = 1 THEN f[1] ELSE Max(f[n], MaxOver(f, n - 1))

\* getBoundingRect: the min/max hull of the rectangles.
GetBoundingRect(rects) ==
    LET n == Len(rects)
        l == MinOver([i \in 1..n |-> rects[i].left], n)
        t == MinOver([i \in 1..n |-> rects[i].top], n)
        r == MaxOver([i \in 1..n |-> rects[i].left + rects[i].width], n)
        b == MaxOver([i \in 1..n |-> rects[i].top + rects[i].height], n)
    IN  [left |-> l, top |-> t, width |-> r - l, height |-> b - t,
         pageNumber |-> rects[1].pageNumber]

\* viewportToScaled: coordinates divided by the viewport's scale factor.
ViewportToScaled(rect, s) ==
    [x1 |-> Frac(rect.left, s), y1 |-> Frac(rect.top, s),
     x2 |-> Frac(rect.left + rect.width, s),
     y2 |-> Frac(rect.top + rect.height, s),
     pageNumber |-> rect.pageNumber]

\* The height of a page in PDF units; the rectangles converted fit in it.
PageHeight == 2 * MaxCoord

\* A scaled coordinate times the viewport's scale factor, in pixels; exact
\* for a coordinate that was scaled at the same viewport.
ToPixels(f, s) == (f.num * s) \div f.den

\* Mutant: the scaled coordinate is taken for the viewport coordinate.
ScaledToViewportUnscaled(scaled, s, usePdfCoordinates) ==
    [left |-> ToPixels(scaled.x1, 1), top |-> ToPixels(scaled.y1, 1),
     width |-> ToPixels(scaled.x2, 1) - ToPixels(scaled.x1, 1),
     height |-> ToPixels(scaled.y2, 1) - ToPixels(scaled.y1, 1),
     pageNumber |-> scaled.pageNumber]

\* scaledToViewport: the inverse of viewportToScaled.  With usePdfCoordinates
\* the scaled rectangle is read as PDF user space, whose origin is the
\* bottom-left corner of the page, so its y coordinates are mirrored.
ScaledToViewport(scaled, s, usePdfCoordinates) ==
    LET x1 == ToPixels(scaled.x1, s)
        x2 == ToPixels(scaled.x2, s)
        y1 == IF usePdfCoordinates
              THEN PageHeight * s - ToPixels(scaled.y1, s)
              ELSE ToPixels(scaled.y1, s)
        y2 == IF usePdfCoordinates
              THEN PageHeight * s - ToPixels(scaled.y2, s)
              ELSE ToPixels(scaled.y2, s)
    IN  [left |-> Min(x1, x2), top |-> Min(y1, y2),
         width |-> Max(x1, x2) - Min(x1, x2),
         height |-> Max(y1, y2) - Min(y1, y2),
         pageNumber |-> scaled.pageNumber]

ViewportPositionToScaled(vp, s) ==
    [boundingRect |-> ViewportToScaled(vp.boundingRect, s),
     rects |-> [i \in 1..Len(vp.rects) |-> ViewportToScaled(vp.rects[i], s)],
     usePdfCoordinates |-> FALSE]

\* The caller's onSelectionFinished: the element it returns carries the two
\* continuations, which close over the position and content it was given.
OnSelectionFinished(position, content) ==
    [tip |-> "selection", position |-> position, content |-> content]

\* ----------------------------------------------------- caller's values
\* The caller's highlight number h: a stored scaled position on its page.
Highlight(h) ==
    LET r == ClientRect(PageOf(h), h, 1)
    IN  [id |-> h,
         position |-> ViewportPositionToScaled(
                          [boundingRect |-> r, rects |-> <<r>>], 1),
         content |-> [text |-> h]]

HighlightArrays == {[i \in 1..n |-> Highlight(i)] : n \in 0..NumHighlights}

\* The rectangle MouseSelectionRenderer reports for an area selection.
AreaRect(s) ==
    [left |-> s, top |-> s, width |-> s, height |-> s, pageNumber |-> 1]

\* ---------------------------------------------------------------- state
VARIABLES
    highlights,                 \* highlightsRef.current (the highlights prop)
    ghostHighlight,             \* ghostHighlightRef.current
    isCollapsed,                \* isCollapsedRef.current
    range,                      \* rangeRef.current (0: null)
    scrolledToHighlightId,      \* scrolledToHighlightIdRef.current (0: null)
    isAreaSelectionInProgress,  \* isAreaSelectionInProgressRef.current
    pdfScaleValue,              \* the pdfScaleValue prop of the latest render
    pdfScaleValueRef,           \* pdfScaleValueRef.current
    tipPosition,                \* useState tipPosition
    tipChildren,                \* useState tipChildren
    highlightRoots,             \* highlightRootsRef.current
    listeners,                  \* handlers and observers currently registered
    mounted,                    \* the component is mounted, its container in the document
    documentReady,              \* pagesinit has been dispatched
    viewer,                     \* viewerRef.current: "pending" before the mount effect, then "built" or "none"
    currentScaleValue,          \* viewerRef.current.currentScaleValue
    textLayer,                  \* per page: the page view has a text layer
    afterSelectionTimer,        \* first render's debouncedAfterSelection: remaining delay
    scaleTimer,                 \* first render's debouncedScaleValue: remaining delay
    scaleTimers,                \* debouncedScaleValue of later renders: remaining delays
    scrollTimers,               \* scrollTo timeouts: remaining delays
    scrollToCalled,             \* scrollTo has run since the component mounted
    renders,                    \* the root.render calls of the last step
    quiet,                      \* time since the last accepted selectionchange (saturates)
    burst,                      \* the current (or last) selectionchange burst had several events
    afterSelectionRuns,         \* afterSelection runs since the last accepted selectionchange
    selectionFinishedCalls,     \* of those, the runs that invoked onSelectionFinished
    scaleQuiet,                 \* time since the last scale trigger (saturates)
    handleScaleValueRuns,       \* handleScaleValue runs in the current burst of scale triggers (saturates)
    conversion,                 \* a rectangle on its way through the coordinate converter
    lastCommit                  \* ghost handed to the last commit continuation run since the last dismiss

selVars == <<isCollapsed, range, afterSelectionTimer, quiet, burst,
             afterSelectionRuns, selectionFinishedCalls>>
tipVars == <<tipPosition, tipChildren>>
ghostVars == <<ghostHighlight, lastCommit>>
scaleVars == <<pdfScaleValue, pdfScaleValueRef, currentScaleValue, scaleTimer,
               scaleTimers, scaleQuiet, handleScaleValueRuns>>
scrollVars == <<scrolledToHighlightId, scrollTimers, scrollToCalled>>
lifeVars == <<listeners, mounted, documentReady, viewer>>
vars == <<highlights, ghostHighlight, isCollapsed, range, scrolledToHighlightId,
          isAreaSelectionInProgress, pdfScaleValue, pdfScaleValueRef,
          tipPosition, tipChildren, highlightRoots, listeners, mounted,
          documentReady, viewer, currentScaleValue, textLayer,
          afterSelectionTimer,
          scaleTimer, scaleTimers, scrollTimers, renders, quiet, burst,
          afterSelectionRuns, selectionFinishedCalls, scaleQuiet,
          handleScaleValueRuns, conversion, scrollToCalled, lastCommit>>

NoRenders == [called |-> FALSE, threw |-> FALSE, page |-> [p \in Pages |-> NULL]]

\* The state once the first render's effects have run: listeners registered,
\* the viewer built, highlightsRef and pdfScaleValueRef set, the first
\* renderHighlightLayers done (no page has a text layer yet) and
\* debouncedScaleValue called by the [pdfScaleValue] effect.  The caller
\* mounts the component with NumHighlights highlights and the default scale.
Init ==
    /\ highlights = [i \in 1..NumHighlights |-> Highlight(i)]
    /\ ghostHighlight = NULL
    /\ isCollapsed = TRUE
    /\ range = 0
    /\ scrolledToHighlightId = 0
    /\ scrollToCalled = FALSE
    /\ isAreaSelectionInProgress = FALSE
    /\ pdfScaleValue = "auto"
    /\ pdfScaleValueRef = "auto"
    /\ tipPosition = NULL
    /\ tipChildren = NULL
    /\ highlightRoots = [p \in Pages |-> NULL]
    /\ listeners = {"textlayerrendered", "pagesinit", "selectionchange",
                    "keydown", "resize"}
    /\ mounted = TRUE
    /\ documentReady = FALSE
    /\ viewer = "built"
    /\ currentScaleValue = "unset"
    /\ textLayer = [p \in Pages |-> FALSE]
    /\ afterSelectionTimer = NoTimer
    /\ scaleTimer = {DebounceWait}
    /\ scaleTimers = {}
    /\ scrollTimers = {}
    /\ renders = [NoRenders EXCEPT !.called = TRUE]
    /\ quiet = DebounceWait
    /\ burst = FALSE
    /\ afterSelectionRuns = 0
    /\ selectionFinishedCalls = 0
    /\ scaleQuiet = 0
    /\ handleScaleValueRuns = 0
    /\ conversion = NULL
    /\ lastCommit = NULL


\* ------------------------------------------------------ highlight layers
\* A highlight-layer element is an object [page, inPage]: inPage says that
\* it still is in its page's text layer.  PDF.js keeps a page view's text
\* layer in the page while the page view has one, so a page has at most one
\* element with inPage, the one of its present text layer.

\* Element.isConnected: the element is in its page and the component's
\* container is in the document.
IsConnected(container) == mounted /\ container.inPage

\* findOrCreateContainerLayer(textLayer.div, className): the highlight layer
\* of page p's present text layer, created on first use.
FindOrCreateContainerLayer(p) == [page |-> p, inPage |-> TRUE]

FindOrCreateHighlightLayer(p) ==
    IF ~textLayer[p] THEN NULL ELSE FindOrCreateContainerLayer(p)

\* createRoot(container): a root of page p's highlight layer.
CreateRoot(container) == [page |-> container.page]

\* groupHighlightsByPage([...highlightsRef.current, ghostHighlightRef.current])
PageOfHighlight(h) == h.position.boundingRect.pageNumber

GroupHighlightsByPage(list) ==
    [p \in Pages |->
        SelectSeq(list, LAMBDA h : h # NULL /\ PageOfHighlight(h) = p)]

\* The element renderHighlightLayer hands to root.render.
HighlightLayer(p, hl, ghost, scrolled) ==
    [highlightsByPage |-> GroupHighlightsByPage(Append(hl, ghost)),
     pageNumber |-> p,
     scrolledToHighlightId |-> scrolled]

\* Mutant: the registered root is used without the isConnected check.
RenderPageNoConnectedCheck(p) ==
    LET highlightRoot == highlightRoots[p]
    IN  IF highlightRoot # NULL
        THEN [entry |-> highlightRoot, rendered |-> TRUE, created |-> FALSE]
        ELSE LET highlightLayer == FindOrCreateHighlightLayer(p)
             IN  IF highlightLayer # NULL
                 THEN [entry |-> [reactRoot |-> CreateRoot(highlightLayer),
                                  container |-> highlightLayer],
                       rendered |-> TRUE, created |-> TRUE]
                 ELSE [entry |-> highlightRoot, rendered |-> FALSE,
                       created |-> FALSE]

\* Mutant: the root created for a new highlight layer is not registered.
RenderPageNoRegister(p) ==
    LET highlightRoot == highlightRoots[p]
    IN  IF highlightRoot # NULL /\ IsConnected(highlightRoot.container)
        THEN [entry |-> highlightRoot, rendered |-> TRUE, created |-> FALSE]
        ELSE LET highlightLayer == FindOrCreateHighlightLayer(p)
             IN  [entry |-> highlightRoot,
                  rendered |-> highlightLayer # NULL /\ highlightRoot # NULL,
                  created |-> highlightLayer # NULL /\ highlightRoot # NULL]

\* Mutant: a root is created on every call, also when one is registered.
RenderPageAlwaysCreate(p) ==
    LET highlightLayer == FindOrCreateHighlightLayer(p)
    IN  IF highlightLayer # NULL
        THEN [entry |-> [reactRoot |-> CreateRoot(highlightLayer),
                         container |-> highlightLayer],
              rendered |-> TRUE, created |-> TRUE]
        ELSE [entry |-> highlightRoots[p], rendered |-> FALSE,
              created |-> FALSE]

\* One iteration of the loop of renderHighlightLayers: the page's entry of
\* highlightRoots afterwards, whether entry.reactRoot was rendered into, and
\* whether createRoot made it in this iteration.
RenderPage(p) ==
    LET highlightRoot == highlightRoots[p]
    IN  IF highlightRoot # NULL /\ IsConnected(highlightRoot.container)
        THEN [entry |-> highlightRoot, rendered |-> TRUE, created |-> FALSE]
        ELSE LET highlightLayer == FindOrCreateHighlightLayer(p)
             IN  IF highlightLayer # NULL
                 THEN [entry |-> [reactRoot |-> CreateRoot(highlightLayer),
                                  container |-> highlightLayer],
                       rendered |-> TRUE, created |-> TRUE]
                 ELSE [entry |-> highlightRoot, rendered |-> FALSE,
                       created |-> FALSE]

\* The page at which renderHighlightLayers throws when viewerRef.current is
\* v: the first page without a connected registered root, for which
\* findOrCreateHighlightLayer reads viewerRef.current!.getPageView, if no
\* viewer was built; NumPages + 1 if no page throws.
FirstThrow(v) ==
    LET throwing == {p \in Pages :
                        /\ v # "built"
                        /\ ~(/\ highlightRoots[p] # NULL
                             /\ IsConnected(highlightRoots[p].container))}
    IN  IF throwing = {} THEN NumPages + 1
        ELSE CHOOSE p \in throwing : \A q \in throwing : p <= q

\* renderHighlightLayers with viewerRef.current = v and the refs holding hl,
\* ghost and scrolled.  Each render is recorded with the root it went into
\* (into), the page's entry before the call (before) and the element
\* rendered; threw says that the call ended in an exception, which leaves
\* the pages from FirstThrow(v) on untouched.
RenderHighlightLayersWith(v, hl, ghost, scrolled) ==
    /\ highlightRoots' = [p \in Pages |->
                            IF p < FirstThrow(v) THEN RenderPage(p).entry
                            ELSE highlightRoots[p]]
    /\ renders' =
         [called |-> TRUE,
          threw |-> FirstThrow(v) <= NumPages,
          page |-> [p \in Pages |->
                      IF p >= FirstThrow(v) \/ ~RenderPage(p).rendered THEN NULL
                      ELSE [into |-> RenderPage(p).entry,
                            created |-> RenderPage(p).created,
                            before |-> highlightRoots[p],
                            element |-> HighlightLayer(p, hl, ghost, scrolled)]]]

\* renderHighlightLayers
RenderHighlightLayers(hl, ghost, scrolled) ==
    RenderHighlightLayersWith(viewer, hl, ghost, scrolled)

NoRender == renders' = NoRenders /\ UNCHANGED highlightRoots

\* Mutant: hideTipAndGhostHighlight without its renderHighlightLayers call.
HideTipAndGhostHighlightNoRender ==
    /\ tipPosition' = NULL
    /\ tipChildren' = NULL
    /\ ghostHighlight' = NULL
    /\ lastCommit' = NULL
    /\ NoRender

\* hideTipAndGhostHighlight
HideTipAndGhostHighlight ==
    /\ tipPosition' = NULL
    /\ tipChildren' = NULL
    /\ ghostHighlight' = NULL
    /\ lastCommit' = NULL
    /\ RenderHighlightLayers(highlights, NULL, scrolledToHighlightId)

\* ------------------------------------------------------------- debounce
\* Mutant: a call while a delay is pending does not restart the wait.
DebounceCallNoRestart(timer) == IF timer = NoTimer THEN {DebounceWait} ELSE timer

\* A call of a debounced function: the trailing call is due one full wait
\* after this call, whatever delay was pending.
DebounceCall(timer) == {DebounceWait}

\* ------------------------------------------------------------ selection
\* document "selectionchange" -> onSelectionChange.  sel is what
\* getSelection() reports: "none" (null), "collapsed", "outside" (no range, or
\* a range outside the container) or "inside" with range r.
OnSelectionChange(sel, r) ==
    /\ "selectionchange" \in listeners
    /\ \/ /\ sel \in {"none", "outside"}
          /\ UNCHANGED selVars
       \/ /\ sel = "collapsed"
          /\ isCollapsed' = TRUE
          /\ UNCHANGED <<range, afterSelectionTimer, quiet, burst,
                         afterSelectionRuns, selectionFinishedCalls>>
       \/ /\ sel = "inside"
          /\ isCollapsed' = FALSE
          /\ range' = r
          /\ afterSelectionTimer' = DebounceCall(afterSelectionTimer)
          /\ quiet' = 0
          /\ burst' = (afterSelectionTimer # NoTimer)
          /\ afterSelectionRuns' = 0
          /\ selectionFinishedCalls' = 0
    /\ NoRender
    /\ UNCHANGED <<conversion, highlights, tipVars, ghostVars, scaleVars, scrollVars,
                   lifeVars, isAreaSelectionInProgress, textLayer>>

Layouts == {"rendered", "noPages", "noRects"}

\* The scale factor of the page viewports under the viewer's scale value.
ViewportScale == IF currentScaleValue = "page-width" THEN 2 ELSE 1

\* Mutant: afterSelection without its check of the collapsed flag.
AfterSelectionIgnoringCollapsed(layout) ==
    LET s == ViewportScale
        pages == GetPagesFromRange(range, layout)
        rects == GetClientRects(range, pages, layout, s)
    IN  /\ afterSelectionRuns' = afterSelectionRuns + 1
        /\ IF \/ range = 0
              \/ Len(pages) = 0
              \/ Len(rects) = 0
           THEN UNCHANGED <<tipVars, selectionFinishedCalls>>
           ELSE LET boundingRect == GetBoundingRect(rects)
                    viewportPosition == [boundingRect |-> boundingRect,
                                         rects |-> rects]
                    content == [text |-> range]
                    scaledPosition ==
                        ViewportPositionToScaled(viewportPosition, s)
                IN  /\ tipPosition' = viewportPosition
                    /\ tipChildren' = OnSelectionFinished(scaledPosition, content)
                    /\ selectionFinishedCalls' = selectionFinishedCalls + 1

\* Mutant: afterSelection takes the first client rectangle for the bounding
\* rectangle.
AfterSelectionFirstRect(layout) ==
    LET s == ViewportScale
        pages == GetPagesFromRange(range, layout)
        rects == GetClientRects(range, pages, layout, s)
    IN  /\ afterSelectionRuns' = afterSelectionRuns + 1
        /\ IF \/ range = 0 \/ isCollapsed
              \/ Len(pages) = 0
              \/ Len(rects) = 0
           THEN UNCHANGED <<tipVars, selectionFinishedCalls>>
           ELSE LET boundingRect == rects[1]
                    viewportPosition == [boundingRect |-> boundingRect,
                                         rects |-> rects]
                    content == [text |-> range]
                    scaledPosition ==
                        ViewportPositionToScaled(viewportPosition, s)
                IN  /\ tipPosition' = viewportPosition
                    /\ tipChildren' = OnSelectionFinished(scaledPosition, content)
                    /\ selectionFinishedCalls' = selectionFinishedCalls + 1

\* afterSelection.  layout is the DOM the range is measured against.
AfterSelection(layout) ==
    LET s == ViewportScale
        pages == GetPagesFromRange(range, layout)
        rects == GetClientRects(range, pages, layout, s)
    IN  /\ afterSelectionRuns' = afterSelectionRuns + 1
        /\ IF \/ range = 0 \/ isCollapsed
              \/ Len(pages) = 0
              \/ Len(rects) = 0
           THEN UNCHANGED <<tipVars, selectionFinishedCalls>>
           ELSE LET boundingRect == GetBoundingRect(rects)
                    viewportPosition == [boundingRect |-> boundingRect,
                                         rects |-> rects]
                    content == [text |-> range]
                    scaledPosition ==
                        ViewportPositionToScaled(viewportPosition, s)
                IN  /\ tipPosition' = viewportPosition
                    /\ tipChildren' = OnSelectionFinished(scaledPosition, content)
                    /\ selectionFinishedCalls' = selectionFinishedCalls + 1

\* The timer of debouncedAfterSelection expires.
DebouncedAfterSelection(layout) ==
    /\ afterSelectionTimer = {0}
    /\ afterSelectionTimer' = NoTimer
    /\ AfterSelection(layout)
    /\ NoRender
    /\ UNCHANGED <<conversion, highlights, isCollapsed, range, quiet, burst, ghostVars,
                   scaleVars, scrollVars, lifeVars, isAreaSelectionInProgress,
                   textLayer>>

\* onPointerDown -> onMouseDown.  target: "nonHTML", "tip" (inside the tip
\* container) or "page" (any other HTML element).
OnMouseDown(target) ==
    /\ mounted
    /\ IF target = "nonHTML" \/ target = "tip"
       THEN NoRender /\ UNCHANGED <<tipVars, ghostVars>>
       ELSE HideTipAndGhostHighlight
    /\ UNCHANGED <<conversion, highlights, selVars, scaleVars, scrollVars, lifeVars,
                   isAreaSelectionInProgress, textLayer>>

\* document "keydown" -> handleKeyDown
HandleKeyDown(code) ==
    /\ "keydown" \in listeners
    /\ IF code = "Escape"
       THEN RenderHighlightLayers(highlights, ghostHighlight,
                                  scrolledToHighlightId)
       ELSE NoRender
    /\ UNCHANGED <<conversion, highlights, selVars, tipVars, ghostVars, scaleVars,
                   scrollVars, lifeVars, isAreaSelectionInProgress, textLayer>>

\* Mutant: the continuation renders before it stores the ghost.
TransformSelectionRenderFirst ==
    /\ mounted
    /\ tipChildren # NULL
    /\ tipChildren.tip \in {"selection", "area"}
    /\ ghostHighlight' = [content |-> tipChildren.content,
                          position |-> tipChildren.position]
    /\ lastCommit' = [content |-> tipChildren.content,
                      position |-> tipChildren.position]
    /\ RenderHighlightLayers(highlights, ghostHighlight, scrolledToHighlightId)
    /\ UNCHANGED <<conversion, highlights, selVars, tipVars, scaleVars, scrollVars,
                   lifeVars, isAreaSelectionInProgress, textLayer>>

\* The caller runs the commit-as-ghost continuation of the tip on display.
\* The area selection's continuation also calls resetSelection(), which is
\* MouseSelectionRenderer's own state.
TransformSelection ==
    /\ mounted
    /\ tipChildren # NULL
    /\ tipChildren.tip \in {"selection", "area"}
    /\ ghostHighlight' = [content |-> tipChildren.content,
                          position |-> tipChildren.position]
    /\ lastCommit' = [content |-> tipChildren.content,
                      position |-> tipChildren.position]
    /\ RenderHighlightLayers(highlights, ghostHighlight', scrolledToHighlightId)
    /\ UNCHANGED <<conversion, highlights, selVars, tipVars, scaleVars, scrollVars,
                   lifeVars, isAreaSelectionInProgress, textLayer>>

\* The caller runs the dismiss continuation of the tip on display, or a
\* rendered HighlightLayer runs its hideTipAndGhostHighlight prop.
Dismiss ==
    /\ mounted
    /\ \/ tipChildren # NULL
       \/ \E p \in Pages : highlightRoots[p] # NULL
    /\ HideTipAndGhostHighlight
    /\ UNCHANGED <<conversion, highlights, selVars, scaleVars, scrollVars, lifeVars,
                   isAreaSelectionInProgress, textLayer>>

\* MouseSelectionRenderer's afterSelection prop: an area selection ends.
AreaSelection ==
    /\ mounted
    /\ documentReady
    /\ LET s == ViewportScale
           viewportPosition == [boundingRect |-> AreaRect(s),
                                rects |-> <<>>]
           scaledPosition == ViewportPositionToScaled(viewportPosition, s)
       IN  /\ tipPosition' = viewportPosition
           /\ tipChildren' = [OnSelectionFinished(scaledPosition,
                                                  [image |-> "png"])
                              EXCEPT !.tip = "area"]
    /\ NoRender
    /\ UNCHANGED <<conversion, highlights, selVars, ghostVars, scaleVars, scrollVars,
                   lifeVars, isAreaSelectionInProgress, textLayer>>


\* Mutant: showTip without its check of the area selection in progress.
ShowTipDuringAreaSelection(h) ==
    /\ mounted
    /\ h \in 1..Len(highlights)
    /\ \E p \in Pages : highlightRoots[p] # NULL
    /\ IF \/ ~isCollapsed
          \/ ghostHighlight # NULL
       THEN UNCHANGED tipVars
       ELSE /\ tipPosition' = highlights[h].position
            /\ tipChildren' = [tip |-> "highlight", highlight |-> h]
    /\ NoRender
    /\ UNCHANGED <<conversion, highlights, selVars, ghostVars, scaleVars, scrollVars,
                   lifeVars, isAreaSelectionInProgress, textLayer>>

\* HighlightLayer calls showTip for highlight h of the highlights prop.
ShowTip(h) ==
    /\ mounted
    /\ h \in 1..Len(highlights)
    /\ \E p \in Pages : highlightRoots[p] # NULL
    /\ IF \/ ~isCollapsed
          \/ ghostHighlight # NULL
          \/ isAreaSelectionInProgress
       THEN UNCHANGED tipVars
       ELSE /\ tipPosition' = highlights[h].position
            /\ tipChildren' = [tip |-> "highlight", highlight |-> h]
    /\ NoRender
    /\ UNCHANGED <<conversion, highlights, selVars, ghostVars, scaleVars, scrollVars,
                   lifeVars, isAreaSelectionInProgress, textLayer>>

\* MouseSelectionRenderer's onChange prop
MouseSelectionOnChange(isVisible) ==
    /\ mounted
    /\ documentReady
    /\ isAreaSelectionInProgress' = isVisible
    /\ NoRender
    /\ UNCHANGED <<conversion, highlights, selVars, tipVars, ghostVars, scaleVars,
                   scrollVars, lifeVars, textLayer>>

\* ----------------------------------------------------------- highlights
\* Mutant: the [highlights] effect renders before it updates highlightsRef.
SetHighlightsRenderFirst(hl) ==
    /\ mounted
    /\ hl # highlights
    /\ highlights' = hl
    /\ RenderHighlightLayers(highlights, ghostHighlight, scrolledToHighlightId)
    /\ UNCHANGED <<conversion, selVars, tipVars, ghostVars, scaleVars, scrollVars,
                   lifeVars, isAreaSelectionInProgress, textLayer>>

\* The caller passes a new highlights array: useEffect([highlights]).
SetHighlights(hl) ==
    /\ mounted
    /\ hl # highlights
    /\ highlights' = hl
    /\ RenderHighlightLayers(hl, ghostHighlight, scrolledToHighlightId)
    /\ UNCHANGED <<conversion, selVars, tipVars, ghostVars, scaleVars, scrollVars,
                   lifeVars, isAreaSelectionInProgress, textLayer>>

\* ---------------------------------------------------------------- scroll
\* The caller runs the scrollTo function it received through scrollRef.
ScrollTo(h) ==
    /\ mounted
    /\ documentReady
    /\ listeners' = listeners \ {"scroll"}
    /\ scrolledToHighlightId' = h
    /\ scrollToCalled' = TRUE
    /\ RenderHighlightLayers(highlights, ghostHighlight, h)
    /\ scrollTimers' = scrollTimers \cup {ScrollWait}
    /\ UNCHANGED <<conversion, highlights, selVars, tipVars, ghostVars, scaleVars,
                   mounted, documentReady, viewer, isAreaSelectionInProgress,
                   textLayer>>

\* A timeout set by scrollTo expires.
ScrollTimeout ==
    /\ 0 \in scrollTimers
    /\ scrollTimers' = scrollTimers \ {0}
    /\ listeners' = listeners \cup {"scroll"}
    /\ NoRender
    /\ UNCHANGED <<conversion, scrollToCalled, highlights, selVars, tipVars,
                   ghostVars, scaleVars,
                   scrolledToHighlightId, mounted, documentReady, viewer,
                   isAreaSelectionInProgress, textLayer>>

\* onScroll detaching itself once it has handled a scroll event.
OnScrollOnce ==
    /\ mounted
    /\ "scroll" \in listeners
    /\ scrolledToHighlightId' = 0
    /\ RenderHighlightLayers(highlights, ghostHighlight, 0)
    /\ listeners' = listeners \ {"scroll"}
    /\ UNCHANGED <<conversion, scrollToCalled, highlights, selVars, tipVars,
                   ghostVars, scaleVars, scrollTimers, mounted, documentReady,
                   viewer, isAreaSelectionInProgress, textLayer>>

\* viewer container "scroll" -> onScroll
OnScroll ==
    /\ mounted
    /\ "scroll" \in listeners
    /\ scrolledToHighlightId' = 0
    /\ RenderHighlightLayers(highlights, ghostHighlight, 0)
    /\ UNCHANGED <<conversion, scrollToCalled, highlights, selVars, tipVars,
                   ghostVars, scaleVars,
                   scrollTimers, lifeVars, isAreaSelectionInProgress,
                   textLayer>>

\* ----------------------------------------------------------------- scale
\* handleScaleValue
HandleScaleValue ==
    /\ currentScaleValue' =
          IF viewer = "built" THEN pdfScaleValueRef ELSE currentScaleValue
    /\ handleScaleValueRuns' = Min(handleScaleValueRuns + 1, MaxScaleRuns)
    /\ UNCHANGED scaleQuiet

\* A scale trigger (resize, pagesinit, prop change): it continues the burst
\* when it follows the previous trigger by less than the debounce window,
\* and starts a new burst otherwise.  A trigger that arrives in the instant
\* a debounced scale call is due is taken after that call, so that the call
\* counts for the burst that armed it.
ScaleTrigger ==
    /\ 0 \notin scaleTimer \cup scaleTimers
    /\ scaleQuiet' = 0
    /\ handleScaleValueRuns' =
          IF scaleQuiet >= DebounceWait THEN 0 ELSE handleScaleValueRuns

\* Mutant: the new render leaves pdfScaleValueRef at the earlier prop.
SetPdfScaleValueStaleRef(v) ==
    /\ mounted
    /\ v # pdfScaleValue
    /\ pdfScaleValue' = v
    /\ pdfScaleValueRef' = pdfScaleValueRef
    /\ scaleTimers' = scaleTimers \cup DebounceCall(NoTimer)
    /\ ScaleTrigger
    /\ NoRender
    /\ UNCHANGED <<conversion, highlights, selVars, tipVars, ghostVars, scrollVars,
                   lifeVars, currentScaleValue, scaleTimer,
                   isAreaSelectionInProgress, textLayer>>

\* The pdfScaleValue prop changes: useEffect([pdfScaleValue]) of the new
\* render, whose debouncedScaleValue is a debounced function of its own.
SetPdfScaleValue(v) ==
    /\ mounted
    /\ v # pdfScaleValue
    /\ pdfScaleValue' = v
    /\ pdfScaleValueRef' = v
    /\ scaleTimers' = scaleTimers \cup DebounceCall(NoTimer)
    /\ ScaleTrigger
    /\ NoRender
    /\ UNCHANGED <<conversion, highlights, selVars, tipVars, ghostVars, scrollVars,
                   lifeVars, currentScaleValue, scaleTimer,
                   isAreaSelectionInProgress, textLayer>>

\* The ResizeObserver notifies the first render's debouncedScaleValue.
Resize ==
    /\ "resize" \in listeners
    /\ scaleTimer' = DebounceCall(scaleTimer)
    /\ ScaleTrigger
    /\ NoRender
    /\ UNCHANGED <<conversion, highlights, selVars, tipVars, ghostVars, scrollVars,
                   lifeVars, pdfScaleValue, pdfScaleValueRef,
                   currentScaleValue, scaleTimers, isAreaSelectionInProgress,
                   textLayer>>

\* The viewer dispatches "pagesinit" -> onDocumentReady.
PagesInit ==
    /\ viewer = "built"
    /\ ~documentReady
    /\ documentReady' = TRUE
    /\ IF "pagesinit" \in listeners
       THEN scaleTimer' = DebounceCall(scaleTimer) /\ ScaleTrigger
       ELSE UNCHANGED <<scaleTimer, scaleQuiet, handleScaleValueRuns>>
    /\ NoRender
    /\ UNCHANGED <<conversion, highlights, selVars, tipVars, ghostVars, scrollVars,
                   listeners, mounted, viewer, pdfScaleValue, pdfScaleValueRef,
                   currentScaleValue, scaleTimers, isAreaSelectionInProgress,
                   textLayer>>

\* The timer of the first render's debouncedScaleValue expires.
DebouncedScaleValue ==
    /\ scaleTimer = {0}
    /\ scaleTimer' = NoTimer
    /\ HandleScaleValue
    /\ NoRender
    /\ UNCHANGED <<conversion, highlights, selVars, tipVars, ghostVars, scrollVars,
                   lifeVars, pdfScaleValue, pdfScaleValueRef, scaleTimers,
                   isAreaSelectionInProgress, textLayer>>

\* The timer of a later render's debouncedScaleValue expires.
DebouncedScaleValueOfRender ==
    /\ 0 \in scaleTimers
    /\ scaleTimers' = scaleTimers \ {0}
    /\ HandleScaleValue
    /\ NoRender
    /\ UNCHANGED <<conversion, highlights, selVars, tipVars, ghostVars, scrollVars,
                   lifeVars, pdfScaleValue, pdfScaleValueRef, scaleTimer,
                   isAreaSelectionInProgress, textLayer>>

\* ------------------------------------------------------------- lifecycle
\* The refs and state of the first render, before its effects have run.
FirstRender ==
    /\ highlights = [i \in 1..NumHighlights |-> Highlight(i)]
    /\ ghostHighlight = NULL
    /\ isCollapsed = TRUE
    /\ range = 0
    /\ scrolledToHighlightId = 0
    /\ scrollToCalled = FALSE
    /\ isAreaSelectionInProgress = FALSE
    /\ pdfScaleValue = "auto"
    /\ pdfScaleValueRef = "auto"
    /\ tipPosition = NULL
    /\ tipChildren = NULL
    /\ highlightRoots = [p \in Pages |-> NULL]
    /\ listeners = {}
    /\ mounted = FALSE
    /\ documentReady = FALSE
    /\ viewer = "pending"
    /\ currentScaleValue = "unset"
    /\ textLayer = [p \in Pages |-> FALSE]
    /\ afterSelectionTimer = NoTimer
    /\ scaleTimer = NoTimer
    /\ scaleTimers = {}
    /\ scrollTimers = {}
    /\ renders = NoRenders
    /\ quiet = DebounceWait
    /\ burst = FALSE
    /\ afterSelectionRuns = 0
    /\ selectionFinishedCalls = 0
    /\ scaleQuiet = DebounceWait
    /\ handleScaleValueRuns = 0
    /\ lastCommit = NULL

\* The state before the effects of the first render have run.
BeforeMount == FirstRender /\ conversion = NULL

\* The effects of the first render, in order: the mount effect, which
\* returns early when the container node is absent and otherwise registers
\* the listeners and builds the viewer; the [highlights] effect, which calls
\* renderHighlightLayers; the [pdfScaleValue] effect.  React removes the
\* component when an effect throws.
Mount(container) ==
    /\ viewer = "pending"
    /\ viewer' = IF container THEN "built" ELSE "none"
    /\ listeners' = IF container
                    THEN {"textlayerrendered", "pagesinit", "selectionchange",
                          "keydown", "resize"}
                    ELSE {}
    /\ RenderHighlightLayersWith(viewer', highlights, ghostHighlight,
                                 scrolledToHighlightId)
    /\ mounted' = ~renders'.threw
    /\ pdfScaleValueRef' = pdfScaleValue
    /\ scaleTimer' = DebounceCall(scaleTimer)
    /\ ScaleTrigger
    /\ UNCHANGED <<conversion, highlights, selVars, tipVars, ghostVars, scrollVars,
                   documentReady, pdfScaleValue, currentScaleValue,
                   scaleTimers, isAreaSelectionInProgress, textLayer>>

\* The cleanup function of the mount effect.
Cleanup ==
    listeners' = listeners \ {"pagesinit", "textlayerrendered",
                              "selectionchange", "keydown", "resize"}

\* The component unmounts: React detaches its container and runs Cleanup.
Unmount ==
    /\ mounted
    /\ mounted' = FALSE
    /\ Cleanup
    /\ NoRender
    /\ UNCHANGED <<conversion, highlights, selVars, tipVars, ghostVars, scaleVars,
                   scrollVars, documentReady, viewer,
                   isAreaSelectionInProgress,
                   textLayer>>

\* ---------------------------------------------------------- the viewer
\* PDF.js draws page p: a new text layer, attached to the page.
PageRendered(p) ==
    /\ mounted
    /\ documentReady
    /\ ~textLayer[p]
    /\ textLayer' = [textLayer EXCEPT ![p] = TRUE]
    /\ NoRender
    /\ UNCHANGED <<conversion, highlights, selVars, tipVars, ghostVars, scaleVars,
                   scrollVars, lifeVars, isAreaSelectionInProgress>>

\* PDF.js unloads page p: its text layer, with the highlight layer in it, is
\* removed from the page.
PageDestroyed(p) ==
    /\ mounted
    /\ textLayer[p]
    /\ textLayer' = [textLayer EXCEPT ![p] = FALSE]
    /\ highlightRoots' =
          [highlightRoots EXCEPT ![p] =
              IF @ = NULL THEN @ ELSE [@ EXCEPT !.container.inPage = FALSE]]
    /\ renders' = NoRenders
    /\ UNCHANGED <<conversion, highlights, selVars, tipVars, ghostVars, scaleVars,
                   scrollVars, lifeVars, isAreaSelectionInProgress>>

\* The viewer dispatches "textlayerrendered" -> renderHighlightLayers.
TextLayerRendered ==
    /\ "textlayerrendered" \in listeners
    /\ \E p \in Pages : textLayer[p]
    /\ RenderHighlightLayers(highlights, ghostHighlight, scrolledToHighlightId)
    /\ UNCHANGED <<conversion, highlights, selVars, tipVars, ghostVars, scaleVars,
                   scrollVars, lifeVars, isAreaSelectionInProgress, textLayer>>

\* ------------------------------------------------------------ converter
\* The rectangles, viewport scales and flags the converter is tried on.
Conversions ==
    [step : {"viewport"},
     rect : [left : 0..MaxCoord, top : 0..MaxCoord, width : 1..MaxCoord,
             height : 1..MaxCoord, pageNumber : {1}],
     scale : 1..MaxScale,
     usePdfCoordinates : BOOLEAN,
     scaled : {NULL},
     back : {NULL}]

\* A viewport rectangle, a viewport and a flag to convert with.
InitConversion == FirstRender /\ conversion \in Conversions

\* viewportToScaled on the rectangle, as afterSelection applies it.
ToScaled ==
    /\ conversion # NULL
    /\ conversion.step = "viewport"
    /\ conversion' =
          [conversion EXCEPT
              !.step = "scaled",
              !.scaled = ViewportToScaled(conversion.rect, conversion.scale)]
    /\ UNCHANGED <<highlights, ghostHighlight, selVars, tipVars, lastCommit,
                   highlightRoots, renders, scaleVars, scrollVars, lifeVars,
                   isAreaSelectionInProgress, textLayer>>

\* scaledToViewport on the result, as scrollTo applies it, with the same
\* viewport.
ToViewport ==
    /\ conversion # NULL
    /\ conversion.step = "scaled"
    /\ conversion' =
          [conversion EXCEPT
              !.step = "back",
              !.back = ScaledToViewport(conversion.scaled, conversion.scale,
                                        conversion.usePdfCoordinates)]
    /\ UNCHANGED <<highlights, ghostHighlight, selVars, tipVars, lastCommit,
                   highlightRoots, renders, scaleVars, scrollVars, lifeVars,
                   isAreaSelectionInProgress, textLayer>>

\* ------------------------------------------------------------------ time
Elapse(timers) == {Max(t - Quantum, 0) : t \in timers}

AllTimers == afterSelectionTimer \cup scaleTimer \cup scaleTimers \cup scrollTimers

\* Quantum milliseconds pass; no due timer is left waiting.
Tick ==
    /\ 0 \notin AllTimers
    /\ afterSelectionTimer' = Elapse(afterSelectionTimer)
    /\ scaleTimer' = Elapse(scaleTimer)
    /\ scaleTimers' = Elapse(scaleTimers)
    /\ scrollTimers' = Elapse(scrollTimers)
    /\ quiet' = Min(quiet + Quantum, DebounceWait)
    /\ scaleQuiet' = Min(scaleQuiet + Quantum, DebounceWait)
    /\ NoRender
    /\ UNCHANGED <<conversion, scrollToCalled, highlights, isCollapsed, range,
                   burst, afterSelectionRuns,
                   selectionFinishedCalls, handleScaleValueRuns, tipVars,
                   ghostVars, pdfScaleValue, pdfScaleValueRef,
                   currentScaleValue, scrolledToHighlightId, lifeVars,
                   isAreaSelectionInProgress, textLayer>>

\* ------------------------------------------------------- specifications
SelectionNext ==
    \/ \E sel \in {"none", "collapsed", "outside"} : OnSelectionChange(sel, 0)
    \/ \E r \in Ranges : OnSelectionChange("inside", r)
    \/ \E layout \in Layouts : DebouncedAfterSelection(layout)

TipNext ==
    \/ \E target \in {"nonHTML", "tip", "page"} : OnMouseDown(target)
    \/ \E code \in {"Escape", "KeyA"} : HandleKeyDown(code)
    \/ TransformSelection
    \/ Dismiss
    \/ AreaSelection

ViewerNext ==
    \/ PagesInit
    \/ \E p \in Pages : PageRendered(p)
    \/ TextLayerRendered
    \/ DebouncedScaleValue
    \/ Tick

ScrollNext ==
    \/ \E hl \in HighlightArrays : SetHighlights(hl)
    \/ \E h \in HighlightIds : ScrollTo(h)
    \/ ScrollTimeout
    \/ OnScroll

ScaleNext ==
    \/ \E v \in ScaleValues : SetPdfScaleValue(v)
    \/ Resize
    \/ DebouncedScaleValueOfRender

Next ==
    \/ SelectionNext
    \/ TipNext
    \/ ViewerNext
    \/ \E p \in Pages : PageDestroyed(p)
    \/ ScrollNext
    \/ ScaleNext
    \/ \E h \in HighlightIds : ShowTip(h)
    \/ \E v \in BOOLEAN : MouseSelectionOnChange(v)
    \/ \E container \in BOOLEAN : Mount(container)
    \/ Unmount
    \/ ToScaled
    \/ ToViewport

Spec == Init /\ [][Next]_vars

(***************************************************************************)
(* The claims are checked under parts of Spec.        The variables that   *)
(* only the actions left out of a part write keep their initial values in  *)
(* it.                                                                     *)
(***************************************************************************)
\* The selection gesture, the tip and the ghost, over pages as the viewer
\* draws them.
SpecSelection == Init /\ [][SelectionNext \/ TipNext \/ ViewerNext]_vars

\* The highlight layers: pages drawn and unloaded, highlights, scrolling,
\* the ghost and teardown.
SpecLayers ==
    Init /\ [][TipNext \/ ViewerNext \/ (\E p \in Pages : PageDestroyed(p))
                 \/ ScrollNext \/ Unmount]_vars

\* The highlight layers from before the first render's effects, with the
\* container node present or absent when they run.
SpecMount ==
    BeforeMount
    /\ [][(\E container \in BOOLEAN : Mount(container))
            \/ TipNext \/ ViewerNext \/ (\E p \in Pages : PageDestroyed(p))
            \/ ScrollNext \/ Unmount]_vars

\* The tips: what showTip meets while selections are made, area selections
\* run and ghosts are committed and dismissed.  No timer is involved in
\* showTip; the behaviours are those in which none expires.
SpecTip ==
    Init /\ [][(\E sel \in {"none", "collapsed", "outside"} :
                    OnSelectionChange(sel, 0))
                 \/ (\E r \in Ranges : OnSelectionChange("inside", r))
                 \/ TransformSelection \/ Dismiss \/ AreaSelection
                 \/ PagesInit \/ (\E p \in Pages : PageRendered(p))
                 \/ TextLayerRendered
                 \/ (\E h \in HighlightIds : ShowTip(h))
                 \/ (\E v \in BOOLEAN : MouseSelectionOnChange(v))]_vars

\* The coordinate converter on its own.
SpecCoordinates == InitConversion /\ [][ToScaled \/ ToViewport]_vars

\* The viewer's scale: prop changes, resizes, pagesinit and teardown.
SpecScale ==
    Init /\ [][ScaleNext \/ PagesInit \/ DebouncedScaleValue \/ Tick
                 \/ Unmount]_vars

\* Teardown with deferred callbacks pending: selections, scrollTo calls and
\* the scale timer of the first render, then the unmount and the timers
\* running out.
SpecTeardown ==
    Init /\ [][SelectionNext \/ ViewerNext
                 \/ (\E h \in HighlightIds : ScrollTo(h)) \/ ScrollTimeout
                 \/ Unmount]_vars

\* ------------------------------------------------------------------ claims
\* Every page with a text layer was rendered, by the last action, with the
\* given ghost.
RenderedWith(rs, ghost) ==
    /\ rs.called
    /\ \A p \in Pages :
          textLayer[p] =>
             /\ rs.page[p] # NULL
             /\ rs.page[p].element =
                   HighlightLayer(p, highlights, ghost, scrolledToHighlightId)

\* C1: a keydown with code Escape leaves the ghost highlight null and the tip
\* hidden (tip position and tip children null), whatever the state before.
C1_EscapeDiscardsSelection ==
    [][HandleKeyDown("Escape")
         => /\ ghostHighlight' = NULL
            /\ tipPosition' = NULL
            /\ tipChildren' = NULL]_vars

\* C2: a pointer-down on an HTML element outside the tip container leaves the
\* ghost, the tip position and the tip children null and every page that has
\* a text layer rendered without a ghost; a pointer-down inside the tip
\* container or on a non-HTML target leaves ghost and tip unchanged.
C2_PointerDownDiscards ==
    [][/\ OnMouseDown("page")
           => /\ ghostHighlight' = NULL
              /\ tipPosition' = NULL
              /\ tipChildren' = NULL
              /\ RenderedWith(renders', NULL)
       /\ (OnMouseDown("tip") \/ OnMouseDown("nonHTML"))
           => UNCHANGED <<ghostHighlight, tipPosition, tipChildren>>]_vars

\* The tip of a finished selection was discarded and the pages re-rendered.
C2_Witness ==
    /\ selectionFinishedCalls = 1
    /\ ghostHighlight = NULL
    /\ tipPosition = NULL
    /\ tipChildren = NULL
    /\ \E p \in Pages : textLayer[p]
    /\ RenderedWith(renders, NULL)

\* C3: after an accepted selectionchange afterSelection runs at most once and
\* invokes onSelectionFinished at most once, only when a full debounce window
\* has passed since the last accepted event, and the content it passes on is
\* read from the range that last event recorded.
C3_DebouncedSelection ==
    /\ [](/\ afterSelectionRuns <= 1
          /\ selectionFinishedCalls <= afterSelectionRuns
          /\ (afterSelectionRuns >= 1 => quiet >= DebounceWait))
    /\ [][selectionFinishedCalls' > selectionFinishedCalls
            => /\ quiet >= DebounceWait
               /\ tipChildren'.content = [text |-> range]]_vars

\* A burst of several events was followed by one run that finished a selection.
C3_Witness ==
    /\ burst
    /\ afterSelectionRuns = 1
    /\ selectionFinishedCalls = 1

\* C4: when the debounced afterSelection fires and the selection is
\* collapsed, no range is recorded, the range maps to no pages or it has no
\* client rectangles, the run completes, onSelectionFinished is not invoked
\* and tip position, tip children and ghost stay as they were.
C4_AfterSelectionShortCircuits ==
    [][\A layout \in Layouts :
          (/\ DebouncedAfterSelection(layout)
           /\ \/ isCollapsed
              \/ range = 0
              \/ layout \in {"noPages", "noRects"})
          => /\ afterSelectionRuns' = afterSelectionRuns + 1
             /\ selectionFinishedCalls' = selectionFinishedCalls
             /\ UNCHANGED <<tipPosition, tipChildren, ghostHighlight>>]_vars

\* A run returned early and left a tip and a ghost in place.
C4_Witness ==
    /\ afterSelectionRuns = 1
    /\ selectionFinishedCalls = 0
    /\ tipChildren # NULL
    /\ ghostHighlight # NULL

\* C5: the ghost highlight is the position and content handed to
\* onSelectionFinished with the commit continuation last run since the last
\* hideTipAndGhostHighlight, null when there is none, and every render of a
\* highlight layer is given the stored highlights together with that ghost.
C5_GhostIsLastCommit ==
    /\ ghostHighlight = lastCommit
    /\ \A p \in Pages :
          renders.page[p] # NULL
             => renders.page[p].element =
                   HighlightLayer(p, highlights, lastCommit,
                                  scrolledToHighlightId)

\* A text selection was committed and its page rendered with the ghost.
C5_Witness ==
    /\ ghostHighlight # NULL
    /\ ghostHighlight.content = [text |-> NumRanges]
    /\ \E p \in Pages :
          /\ renders.page[p] # NULL
          /\ Len(renders.page[p].element.highlightsByPage[p]) > Len(highlights)

\* C6: renderHighlightLayers never renders into a root whose container is
\* detached from the document: every render of the last call went into a
\* root whose container element is connected, so a page whose registered
\* container was detached got no render into that registered root.
C6_NoRenderIntoDetachedRoot ==
    \A p \in Pages :
        renders.page[p] # NULL =>
            /\ IsConnected(renders.page[p].into.container)
            /\ (renders.page[p].before # NULL
                  /\ ~IsConnected(renders.page[p].before.container))
               => renders.page[p].into # renders.page[p].before

C6_Witness ==
    \E p \in Pages :
        /\ renders.page[p] # NULL
        /\ renders.page[p].before # NULL
        /\ ~IsConnected(renders.page[p].before.container)
        /\ IsConnected(renders.page[p].into.container)

\* C7: when a page's registered root is missing or its container is
\* detached, a renderHighlightLayers call registers a new root for the page
\* on the page's current highlight layer and renders into it if the page has
\* a text layer, and leaves the page's entry unchanged and renders nothing
\* for the page if it has no text layer.
C7_LazyRecreation ==
    [][\A p \in Pages :
          (/\ renders'.called
           /\ \/ highlightRoots[p] = NULL
              \/ ~IsConnected(highlightRoots[p].container))
          => IF textLayer[p]
             THEN /\ highlightRoots'[p] # NULL
                  /\ highlightRoots'[p].container = FindOrCreateContainerLayer(p)
                  /\ IsConnected(highlightRoots'[p].container)
                  /\ renders'.page[p] # NULL
                  /\ renders'.page[p].created
                  /\ renders'.page[p].into = highlightRoots'[p]
             ELSE /\ highlightRoots'[p] = highlightRoots[p]
                  /\ renders'.page[p] = NULL]_vars

C7_Witness ==
    \E p \in Pages :
        /\ renders.page[p] # NULL
        /\ renders.page[p].created
        /\ renders.page[p].before # NULL
        /\ highlightRoots[p] = renders.page[p].into
        /\ highlightRoots[p].container.inPage

\* C8: a renderHighlightLayers call that follows another with no change to
\* highlights, ghost, scrolled-to id, pages or containers in between makes
\* the same renders into the same roots, creates no root and leaves
\* highlightRoots unchanged.
C8_RerenderIdempotent ==
    [][(renders.called /\ HandleKeyDown("Escape"))
         => /\ highlightRoots' = highlightRoots
            /\ renders'.called
            /\ \A p \in Pages :
                  IF renders.page[p] = NULL
                  THEN renders'.page[p] = NULL
                  ELSE /\ renders'.page[p] # NULL
                       /\ ~renders'.page[p].created
                       /\ renders'.page[p].into = renders.page[p].into
                       /\ renders'.page[p].element = renders.page[p].element]_vars

C8_Witness ==
    /\ renders.called
    /\ scrolledToHighlightId # 0
    /\ ghostHighlight # NULL
    /\ \E p \in Pages :
          /\ renders.page[p] # NULL
          /\ ~renders.page[p].created
          /\ renders.page[p].before = renders.page[p].into

\* C9: after the teardown function of the mount effect has run, none of the
\* listeners the component registered is left: no selectionchange or keydown
\* listener on the document, no textlayerrendered or pagesinit listener on
\* the event bus, no observed element, and no scroll handler on the viewer
\* container.
C9_TeardownRemovesListeners == ~mounted => listeners = {}

C9_Witness == ~mounted /\ listeners = {"scroll"}

\* C10: once every pending debounced scale call has fired, the viewer's
\* currentScaleValue is the most recently supplied pdfScaleValue prop.
C10_LatestScaleValueWins ==
    (scaleTimer = NoTimer /\ scaleTimers = {})
        => currentScaleValue = pdfScaleValue

C10_Witness ==
    /\ scaleTimer = NoTimer
    /\ scaleTimers = {}
    /\ pdfScaleValue = "page-width"
    /\ currentScaleValue = "page-width"

\* C11: scale triggers collapse under debouncing: in a burst of resize,
\* pagesinit and prop-change triggers, each less than the debounce window
\* after the previous one, handleScaleValue runs exactly once, after the
\* quiet period that follows the last trigger: it never runs while the last
\* trigger is less than a window old, never twice in a burst, and it has run
\* once no debounced scale call is pending.
C11_ScaleBurstRunsOnce ==
    /\ handleScaleValueRuns <= 1
    /\ handleScaleValueRuns >= 1 => scaleQuiet >= DebounceWait
    /\ (scaleTimer = NoTimer /\ scaleTimers = {}) => handleScaleValueRuns = 1

C11_Witness ==
    /\ handleScaleValueRuns = 1
    /\ scaleQuiet >= DebounceWait
    /\ scaleTimer = NoTimer
    /\ scaleTimers = {}
    /\ documentReady
    /\ pdfScaleValue = "page-width"

\* C12: a missing container or a missing text layer short-circuits
\* silently: no renderHighlightLayers call ends in an exception, whether the
\* container node was present at mount or not and whatever page views and
\* text layers the pages have.
C12_RenderNeverThrows == ~renders.threw

C12_Witness ==
    /\ renders.called
    /\ viewer = "built"
    /\ ~renders.threw
    /\ \E p \in Pages : ~textLayer[p] /\ renders.page[p] = NULL

FracLeq(a, b) == a.num * b.den <= b.num * a.den

\* b is the min/max hull of the rectangles rs, given as corner coordinates
\* compared by leq.
IsHull(b, rs, leq(_, _)) ==
    /\ Len(rs) >= 1
    /\ \A i \in 1..Len(rs) :
          /\ leq(b.x1, rs[i].x1) /\ leq(b.y1, rs[i].y1)
          /\ leq(rs[i].x2, b.x2) /\ leq(rs[i].y2, b.y2)
    /\ \E i \in 1..Len(rs) : b.x1 = rs[i].x1
    /\ \E i \in 1..Len(rs) : b.y1 = rs[i].y1
    /\ \E i \in 1..Len(rs) : b.x2 = rs[i].x2
    /\ \E i \in 1..Len(rs) : b.y2 = rs[i].y2

Corners(rect) ==
    [x1 |-> rect.left, y1 |-> rect.top, x2 |-> rect.left + rect.width,
     y2 |-> rect.top + rect.height]

\* C14: the position a settled selection passes on has one bounding
\* rectangle, the min/max hull of its constituent rectangles: left and top
\* are the least left and top, right and bottom the greatest right and
\* bottom.  Checked for the viewport position shown as the tip and for the
\* scaled position handed to onSelectionFinished.
C14_BoundingRectIsHull ==
    (tipChildren # NULL /\ tipChildren.tip = "selection") =>
        /\ IsHull(Corners(tipPosition.boundingRect),
                  [i \in 1..Len(tipPosition.rects) |->
                      Corners(tipPosition.rects[i])],
                  LAMBDA a, b : a <= b)
        /\ IsHull(tipChildren.position.boundingRect,
                  tipChildren.position.rects, FracLeq)

C14_Witness ==
    /\ tipChildren # NULL
    /\ tipChildren.tip = "selection"
    /\ Len(tipPosition.rects) >= 2
    /\ tipPosition.boundingRect.left < tipPosition.rects[1].left
    /\ tipPosition.boundingRect.top = tipPosition.rects[1].top

\* C15: scrollTo(h) sets scrolledToHighlightId to h.id and detaches the
\* scroll handler, and no scroll event that occurs less than ScrollWait
\* after a scrollTo call is handled (resets scrolledToHighlightId, invokes
\* onScrollChange), also when several scrollTo calls overlap.
C15_NoScrollHandlingAfterScrollTo ==
    [][/\ \A h \in HighlightIds :
            ScrollTo(h) => /\ scrolledToHighlightId' = h
                           /\ "scroll" \notin listeners'
       /\ OnScroll => ~(\E t \in scrollTimers : t > 0)]_vars

C15_Witness ==
    /\ mounted
    /\ scrolledToHighlightId # 0
    /\ "scroll" \in listeners
    /\ \E t \in scrollTimers : t > 0

\* C16: showTip shows no tip while a highlight is in progress: with a
\* non-collapsed selection, a ghost highlight or an area selection in
\* progress it leaves tip position and tip children unchanged; otherwise it
\* sets the tip position to the highlight's position and the tip children
\* to the tip's content.
C16_ShowTipGuard ==
    [][\A h \in HighlightIds :
          ShowTip(h) =>
              IF ~isCollapsed \/ ghostHighlight # NULL
                              \/ isAreaSelectionInProgress
              THEN /\ tipPosition' = tipPosition
                   /\ tipChildren' = tipChildren
              ELSE /\ tipPosition' = highlights[h].position
                   /\ tipChildren' = [tip |-> "highlight", highlight |-> h]]_vars

C16_Witness ==
    /\ tipChildren # NULL
    /\ tipChildren.tip = "highlight"
    /\ tipPosition = highlights[tipChildren.highlight].position
    /\ isCollapsed
    /\ ghostHighlight = NULL
    /\ ~isAreaSelectionInProgress

\* C17: every highlight-layer render uses the latest highlights: the effect
\* of a highlights prop change renders each page that has a usable root
\* with the new array plus the current ghost, and whatever event triggers a
\* render afterwards, no render passes an earlier array.
C17_RendersUseLatestHighlights ==
    /\ [](\A p \in Pages :
            renders.page[p] # NULL =>
                renders.page[p].element =
                    HighlightLayer(p, highlights, ghostHighlight,
                                   scrolledToHighlightId))
    /\ [][\A hl \in HighlightArrays :
            SetHighlights(hl) =>
                \A p \in Pages :
                    textLayer[p] =>
                        /\ renders'.page[p] # NULL
                        /\ renders'.page[p].element =
                              HighlightLayer(p, hl, ghostHighlight,
                                             scrolledToHighlightId)]_vars

C17_Witness ==
    /\ Len(highlights) < NumHighlights
    /\ ghostHighlight # NULL
    /\ scrolledToHighlightId = 0
    /\ "scroll" \in listeners
    /\ \E p \in Pages :
          /\ renders.page[p] # NULL
          /\ ~renders.page[p].created
          /\ Len(renders.page[p].element.highlightsByPage[p])
                <= Len(highlights) + 1

\* C18 (as stated): once the document is ready, a scroll event on the viewer
\* container outside the 100 ms window of a scrollTo call runs onScroll
\* (which invokes onScrollChange and resets scrolledToHighlightId), also when
\* scrollTo has never been called.
C18_ScrollAlwaysHandled ==
    (mounted /\ documentReady /\ scrollTimers = {}) => ENABLED OnScroll

\* C18 (amended): once scrollTo has been called, a scroll event outside the
\* 100 ms window of every scrollTo call runs onScroll, which resets
\* scrolledToHighlightId to null; before the first scrollTo call no scroll
\* event runs onScroll.
C18_ScrollHandledAfterScrollTo ==
    /\ []((mounted /\ documentReady /\ scrollTimers = {} /\ scrollToCalled)
             => ENABLED OnScroll)
    /\ [](~scrollToCalled => ~ENABLED OnScroll)
    /\ [][OnScroll => scrolledToHighlightId' = 0]_vars

C18_Witness ==
    /\ mounted
    /\ documentReady
    /\ scrollToCalled
    /\ scrollTimers = {}
    /\ scrolledToHighlightId = 0
    /\ "scroll" \in listeners

\* C19: createRoot is called at most once per highlight-layer element: a
\* renderHighlightLayers call creates a root only on an element other than
\* the page's registered container, and registers every root it creates, so
\* an element that has a root and is still in its page is the registered one.
C19_RootCreatedOncePerContainer ==
    \A p \in Pages :
        (renders.page[p] # NULL /\ renders.page[p].created) =>
            /\ \/ renders.page[p].before = NULL
               \/ renders.page[p].before.container
                     # renders.page[p].into.container
            /\ highlightRoots[p] = renders.page[p].into
            /\ renders.page[p].into.reactRoot
                  = CreateRoot(renders.page[p].into.container)

C19_Witness ==
    \E p \in Pages :
        /\ renders.page[p] # NULL
        /\ renders.page[p].created
        /\ renders.page[p].before # NULL
        /\ renders.page[p].before.container.page = p
        /\ ~renders.page[p].before.container.inPage
        /\ scrollToCalled

\* C20: after teardown no deferred callback takes effect: no step of an
\* unmounted component invokes onSelectionFinished, sets the tip, sets the
\* viewer's scale or attaches a handler.
C20_NoDeferredEffectAfterTeardown ==
    [][~mounted =>
          /\ selectionFinishedCalls' = selectionFinishedCalls
          /\ tipPosition' = tipPosition
          /\ tipChildren' = tipChildren
          /\ currentScaleValue' = currentScaleValue
          /\ listeners' \subseteq listeners]_vars

C20_Witness ==
    /\ ~mounted
    /\ afterSelectionTimer # NoTimer
    /\ scaleTimer # NoTimer
    /\ scrollTimers # {}
    /\ "scroll" \notin listeners

====
